---- MODULE Spec2Model ----
(***************************************************************************)
(* Grid placement and collision engine of katsu_mapapp (src/Script.js).    *)
(*                                                                         *)
(* The state is the terrain registry (the global array `terrains`), the    *)
(* grid configuration, the drag controller's globals and the clock that    *)
(* Date.now() reads.  A terrain object is a record; the registry is the    *)
(* sequence of the objects in insertion order.  selectedTerrain is a       *)
(* reference to an object: it is modelled as the object's index in the     *)
(* registry, or as the detached object itself once removeTerrain has       *)
(* spliced it out while it was still selected.                             *)
(*                                                                         *)
(* Lengths are integers (world units); Math.ceil(w / cellSize) is the      *)
(* integer ceiling.  terrain.rotation counts quarter turns: the code adds  *)
(* PI/2 modulo 2*PI.                                                       *)
(***************************************************************************)
EXTENDS Integers, Sequences, FiniteSets, TLC

VARIABLES
    terrains,         \* the registry: a sequence of terrain objects
    grid,             \* [size, cellSize]
    selectedTerrain,  \* NoSel | [kind |-> "in", idx] | [kind |-> "out", obj]
    isDragging,
    controlsEnabled,  \* controls.enabled
    now,              \* what Date.now() returns
    outcome,          \* history: how the last handler ended: "done",
                      \*          "rejected" (onMouseMove did not commit) or
                      \*          "threw" (an uncaught error)
    fellBack,         \* history: a terrain of the registry was placed by the
                      \*          (0,0) fallback
    stale             \* history: the grid configuration changed after a
                      \*          terrain of the registry was placed

vars == <<terrains, grid, selectedTerrain, isDragging, controlsEnabled,
          now, outcome, fellBack, stale>>

----------------------------------------------------------------------------
(* Bounds of the model *)

\* at most this many terrains are in the registry at once
MaxTerrains == 2

\* Date.now() takes the values 0..MaxNow
MaxNow == 1

\* bounding boxes <<width, depth>> an imported mesh may have (world units)
Shapes == {<<15, 5>>, <<15, 15>>, <<0, 5>>}

\* values typed into the gridSize and cellSize inputs
GridSizeInputs == {1}
CellSizeInputs == {5}

\* grid cells <<x, z>> a pointer position may snap to during a drag
DragCells == {<<-11, 9>>, <<0, 0>>, <<1, 0>>, <<2, 0>>}

----------------------------------------------------------------------------
(* Pure helpers *)

\* Math.ceil(a / b) for b > 0
Ceil(a, b) == -((-a) \div b)

cellsWide(t, g) == Ceil(t.dimensions.width, g.cellSize)
cellsDeep(t, g) == Ceil(t.dimensions.depth, g.cellSize)

\* the object createTerrainObject returns
createTerrainObject(id, w, d) ==
    [id |-> id,
     gridPosition |-> [x |-> 0, z |-> 0],
     dimensions |-> [width |-> w, depth |-> d],
     rotation |-> 0]

\* faulty variant: rectangles that share an edge count as overlapping
noOverlapStrict(x, z, width, depth, t, g) ==
    \/ x + width < t.gridPosition.x
    \/ t.gridPosition.x + cellsWide(t, g) < x
    \/ z + depth < t.gridPosition.z
    \/ t.gridPosition.z + cellsDeep(t, g) < z

\* the test of the loop body of isPositionOccupied for one terrain
noOverlap(x, z, width, depth, t, g) ==
    \/ x + width <= t.gridPosition.x
    \/ t.gridPosition.x + cellsWide(t, g) <= x
    \/ z + depth <= t.gridPosition.z
    \/ t.gridPosition.z + cellsDeep(t, g) <= z

isPositionOccupied(ts, g, x, z, width, depth, excludeTerrainId) ==
    \E i \in 1..Len(ts) :
        /\ ts[i].id # excludeTerrainId
        /\ ~noOverlap(x, z, width, depth, ts[i], g)

\* faulty variant: the upper bounds tested with < instead of <=
isValidGridPositionStrict(ts, g, x, z, width, depth, excludeTerrainId) ==
    /\ x + width < g.size
    /\ z + depth < g.size
    /\ ~isPositionOccupied(ts, g, x, z, width, depth, excludeTerrainId)

isValidGridPosition(ts, g, x, z, width, depth, excludeTerrainId) ==
    /\ x + width <= g.size
    /\ z + depth <= g.size
    /\ ~isPositionOccupied(ts, g, x, z, width, depth, excludeTerrainId)

NoPos == [x |-> 0, z |-> 0, none |-> TRUE]

\* the two nested for loops of findAvailableGridPosition, from (x, z) on:
\* the first free cell, or NoPos when the loops run out
RECURSIVE ScanFrom(_, _, _, _, _, _, _)
ScanFrom(ts, g, x, z, cw, cd, id) ==
    IF ~(z < g.size - cd + 1) THEN NoPos
    ELSE IF ~(x < g.size - cw + 1) THEN ScanFrom(ts, g, -g.size, z + 1, cw, cd, id)
    ELSE IF ~isPositionOccupied(ts, g, x, z, cw, cd, id)
         THEN [x |-> x, z |-> z, none |-> FALSE]
    ELSE ScanFrom(ts, g, x + 1, z, cw, cd, id)

\* faulty variant: the search starts at the origin instead of at -grid.size
ScanGridFromOrigin(ts, g, terrain) ==
    ScanFrom(ts, g, 0, 0,
             cellsWide(terrain, g), cellsDeep(terrain, g), terrain.id)

ScanGrid(ts, g, terrain) ==
    ScanFrom(ts, g, -g.size, -g.size,
             cellsWide(terrain, g), cellsDeep(terrain, g), terrain.id)

findAvailableGridPosition(ts, g, terrain) ==
    LET r == ScanGrid(ts, g, terrain)
    IN  IF r.none THEN [x |-> 0, z |-> 0] ELSE [x |-> r.x, z |-> r.z]

\* faulty variant: an id that is not found yields the last terrain
FindIndexOrLast(ts, terrainId) ==
    IF \E i \in 1..Len(ts) : ts[i].id = terrainId
    THEN CHOOSE i \in 1..Len(ts) :
             /\ ts[i].id = terrainId
             /\ \A j \in 1..(i - 1) : ts[j].id # terrainId
    ELSE Len(ts)

\* terrains.find(t => t.id === terrainId) / findIndex: the first index, 0 if none
FindIndex(ts, terrainId) ==
    IF \E i \in 1..Len(ts) : ts[i].id = terrainId
    THEN CHOOSE i \in 1..Len(ts) :
             /\ ts[i].id = terrainId
             /\ \A j \in 1..(i - 1) : ts[j].id # terrainId
    ELSE 0

\* faulty variant: terrains.splice(i, 2)
SpliceTwo(ts, i) == SubSeq(ts, 1, i - 1) \o SubSeq(ts, i + 2, Len(ts))

\* terrains.splice(i, 1)
Splice(ts, i) == [j \in 1..(Len(ts) - 1) |-> IF j < i THEN ts[j] ELSE ts[j + 1]]

----------------------------------------------------------------------------
(* State *)

NoSel == [kind |-> "null"]

\* the object selectedTerrain refers to.  Of an object that is no longer in
\* the registry only id and dimensions are kept: onMouseMove still writes its
\* gridPosition, which nothing reads again.
SelObj == IF selectedTerrain.kind = "in" THEN terrains[selectedTerrain.idx]
          ELSE selectedTerrain.obj

Init ==
    /\ terrains = <<>>
    /\ grid = [size |-> 10, cellSize |-> 10]
    /\ selectedTerrain = NoSel
    /\ isDragging = FALSE
    /\ controlsEnabled = TRUE
    /\ now = 0
    /\ outcome = "done"
    /\ fellBack = FALSE
    /\ stale = FALSE

\* The system clock advances between two events.
Tick ==
    /\ now < MaxNow
    /\ now' = now + 1
    /\ UNCHANGED <<terrains, grid, selectedTerrain, isDragging, controlsEnabled,
                   outcome, fellBack, stale>>

\* The GLTF loader's success callback of loadTerrain: createTerrainObject,
\* terrains.push, positionTerrainOnGrid.
LoadTerrain(w, d) ==
    /\ Len(terrains) < MaxTerrains
    /\ LET terrain == createTerrainObject(now, w, d)
           pushed == Append(terrains, terrain)
           position == findAvailableGridPosition(pushed, grid, terrain)
           none == ScanGrid(pushed, grid, terrain).none
       IN  /\ terrains' = Append(terrains, [terrain EXCEPT !.gridPosition = position])
           /\ fellBack' = (fellBack \/ none)
           /\ outcome' = "done"
    /\ UNCHANGED <<grid, selectedTerrain, isDragging, controlsEnabled, now, stale>>

\* pointerdown: hit is the index of the terrain whose mesh the ray meets first,
\* 0 when the ray meets no terrain mesh.
onMouseDown(hit) ==
    /\ IF hit # 0
       THEN /\ selectedTerrain' = [kind |-> "in", idx |-> hit]
            /\ isDragging' = TRUE
            /\ controlsEnabled' = FALSE
       ELSE UNCHANGED <<selectedTerrain, isDragging, controlsEnabled>>
    /\ outcome' = "done"
    /\ UNCHANGED <<terrains, grid, now, fellBack, stale>>

\* pointermove: (gridX, gridZ) is the cell the pointer position rounds to.
onMouseMove(gridX, gridZ) ==
    /\ IF ~isDragging \/ selectedTerrain = NoSel
       THEN /\ UNCHANGED terrains
            /\ outcome' = "done"
       ELSE LET cw == cellsWide(SelObj, grid)
                cd == cellsDeep(SelObj, grid)
            IN  IF isValidGridPosition(terrains, grid, gridX, gridZ, cw, cd, SelObj.id)
                THEN /\ terrains' =
                          IF selectedTerrain.kind = "in"
                          THEN [terrains EXCEPT ![selectedTerrain.idx].gridPosition =
                                                    [x |-> gridX, z |-> gridZ]]
                          ELSE terrains
                     /\ outcome' = "done"
                ELSE /\ UNCHANGED terrains
                     /\ outcome' = "rejected"
    /\ UNCHANGED <<grid, selectedTerrain, isDragging, controlsEnabled, now,
                   fellBack, stale>>

\* faulty variant: pointerup does not clear selectedTerrain
onMouseUpKeepingSelection ==
    /\ isDragging' = FALSE
    /\ controlsEnabled' = TRUE
    /\ outcome' = "done"
    /\ UNCHANGED <<terrains, grid, selectedTerrain, now, fellBack, stale>>

\* pointerup
onMouseUp ==
    /\ isDragging' = FALSE
    /\ selectedTerrain' = NoSel
    /\ controlsEnabled' = TRUE
    /\ outcome' = "done"
    /\ UNCHANGED <<terrains, grid, now, fellBack, stale>>

\* faulty variant: the angle is not reduced modulo a full turn
TurnedNoWrap(terrain) ==
    [terrain EXCEPT
       !.rotation = terrain.rotation + 1,
       !.dimensions = [width |-> terrain.dimensions.depth,
                       depth |-> terrain.dimensions.width]]

\* the first two writes of rotateTerrain: a quarter turn is added to rotation
\* modulo a full turn, and width and depth are swapped
Turned(terrain) ==
    [terrain EXCEPT
       !.rotation = (terrain.rotation + 1) % 4,
       !.dimensions = [width |-> terrain.dimensions.depth,
                       depth |-> terrain.dimensions.width]]

\* window.rotateTerrain.  findNearestValidPosition is defined nowhere, so the
\* else branch ends in a ReferenceError after rotation and dimensions were
\* written and before gridPosition is.
rotateTerrain(terrainId) ==
    LET i == FindIndex(terrains, terrainId)
    IN  /\ IF i = 0
           THEN /\ UNCHANGED terrains
                /\ outcome' = "done"
           ELSE LET terrain == terrains[i]
                    currentGridPos == terrain.gridPosition
                    turned == Turned(terrain)
                    ts == [terrains EXCEPT ![i] = turned]
                    cw == cellsWide(turned, grid)
                    cd == cellsDeep(turned, grid)
                IN  IF isValidGridPosition(ts, grid, currentGridPos.x,
                                           currentGridPos.z, cw, cd, turned.id)
                    THEN /\ terrains' = [ts EXCEPT ![i].gridPosition = currentGridPos]
                         /\ outcome' = "done"
                    ELSE /\ terrains' = ts
                         /\ outcome' = "threw"
        /\ UNCHANGED <<grid, selectedTerrain, isDragging, controlsEnabled, now,
                       fellBack, stale>>

\* window.centerOnTerrain: moves the camera target only.
centerOnTerrain(terrainId) ==
    /\ outcome' = "done"
    /\ UNCHANGED <<terrains, grid, selectedTerrain, isDragging, controlsEnabled,
                   now, fellBack, stale>>

\* window.removeTerrain.  A selected object stays referenced by
\* selectedTerrain after it is spliced out of the registry.
removeTerrain(terrainId) ==
    LET i == FindIndex(terrains, terrainId)
        left == Splice(terrains, i)
    IN  /\ IF i = 0
           THEN UNCHANGED <<terrains, selectedTerrain, fellBack, stale>>
           ELSE /\ terrains' = left
                /\ selectedTerrain' =
                      IF selectedTerrain.kind # "in" THEN selectedTerrain
                      ELSE IF selectedTerrain.idx = i
                           THEN [kind |-> "out",
                                 obj |-> [id |-> terrains[i].id,
                                          dimensions |-> terrains[i].dimensions]]
                      ELSE IF selectedTerrain.idx > i
                           THEN [kind |-> "in", idx |-> selectedTerrain.idx - 1]
                      ELSE selectedTerrain
                /\ fellBack' = (fellBack /\ left # <<>>)
                /\ stale' = (stale /\ left # <<>>)
        /\ outcome' = "done"
        /\ UNCHANGED <<grid, isDragging, controlsEnabled, now>>

\* the change handlers of the gridSize and cellSize inputs (updateGrid only
\* rebuilds the grid helpers)
SetGridSize(v) ==
    /\ grid' = [grid EXCEPT !.size = v]
    /\ stale' = (stale \/ (v # grid.size /\ terrains # <<>>))
    /\ outcome' = "done"
    /\ UNCHANGED <<terrains, selectedTerrain, isDragging, controlsEnabled, now, fellBack>>

\* faulty variant: the change of cellSize also moves every terrain to the origin
SetCellSizeRelocating(v) ==
    /\ grid' = [grid EXCEPT !.cellSize = v]
    /\ terrains' = [k \in 1..Len(terrains) |->
                       [terrains[k] EXCEPT !.gridPosition = [x |-> 0, z |-> 0]]]
    /\ stale' = (stale \/ (v # grid.cellSize /\ terrains # <<>>))
    /\ outcome' = "done"
    /\ UNCHANGED <<selectedTerrain, isDragging, controlsEnabled, now, fellBack>>

SetCellSize(v) ==
    /\ grid' = [grid EXCEPT !.cellSize = v]
    /\ stale' = (stale \/ (v # grid.cellSize /\ terrains # <<>>))
    /\ outcome' = "done"
    /\ UNCHANGED <<terrains, selectedTerrain, isDragging, controlsEnabled, now, fellBack>>

Next ==
    \/ Tick
    \/ \E s \in Shapes : LoadTerrain(s[1], s[2])
    \/ \E hit \in 0..Len(terrains) : onMouseDown(hit)
    \/ \E c \in DragCells : onMouseMove(c[1], c[2])
    \/ onMouseUp
    \/ \E terrainId \in 0..MaxNow : rotateTerrain(terrainId)
    \/ \E terrainId \in 0..MaxNow : centerOnTerrain(terrainId)
    \/ \E terrainId \in 0..MaxNow : removeTerrain(terrainId)
    \/ \E v \in GridSizeInputs : SetGridSize(v)
    \/ \E v \in CellSizeInputs : SetCellSize(v)

Spec == Init /\ [][Next]_vars

----------------------------------------------------------------------------
(* Vocabulary of the properties *)

\* footprint of the i-th terrain of the registry, in cells
Wide(i) == cellsWide(terrains[i], grid)
Deep(i) == cellsDeep(terrains[i], grid)

\* the rectangle (x, z, w, d) overlaps terrain t: neither rectangle's minimum
\* edge is at or beyond the other's maximum edge, on both axes
Overlaps(x, z, w, d, t, g) ==
    /\ x < t.gridPosition.x + cellsWide(t, g)
    /\ t.gridPosition.x < x + w
    /\ z < t.gridPosition.z + cellsDeep(t, g)
    /\ t.gridPosition.z < z + d

Max(a, b) == IF a >= b THEN a ELSE b
Min(a, b) == IF a <= b THEN a ELSE b

\* the grid rectangles [x, x + cellsWide) x [z, z + cellsDeep) of the i-th and
\* the j-th terrain have a cell in common
Intersect(i, j) ==
    LET a == terrains[i].gridPosition
        b == terrains[j].gridPosition
    IN  /\ Max(a.x, b.x) < Min(a.x + Wide(i), b.x + Wide(j))
        /\ Max(a.z, b.z) < Min(a.z + Deep(i), b.z + Deep(j))

\* NO-OVERLAP: no two distinct terrains of the registry intersect
NoOverlapInv ==
    \A i, j \in 1..Len(terrains) : i # j => ~Intersect(i, j)

\* UPPER-BOUND: every terrain of the registry ends at or below grid.size
UpperBoundInv ==
    \A i \in 1..Len(terrains) :
        /\ terrains[i].gridPosition.x + Wide(i) <= grid.size
        /\ terrains[i].gridPosition.z + Deep(i) <= grid.size

----------------------------------------------------------------------------
(* C1 *)

\* C1: after any sequence of placements, drag moves and rotations, no two
\* distinct terrains of the registry have intersecting grid rectangles,
\* unless a placement fell back to (0,0).  (The grid configuration is the
\* one the terrains were placed under.)
C1_NoOverlap == (~fellBack /\ ~stale) => NoOverlapInv

----------------------------------------------------------------------------
(* C2 *)

\* C2: with the grid configuration fixed, after any sequence of placements,
\* drag moves and rotations every terrain of the registry satisfies
\* x + cellsWide <= grid.size and z + cellsDeep <= grid.size.  The (0,0)
\* fallback of an oversized terrain is set aside here, so that what is
\* refuted is the claim about the three operations.
C2_UpperBound == (~fellBack /\ ~stale) => UpperBoundInv

----------------------------------------------------------------------------
(* C3 *)

\* grid coordinates searched for a valid position of a rotated terrain
Coords == -15..10

\* (x, z) is valid for a w x d footprint of the i-th terrain: within the upper
\* bound and overlapping no terrain of another id
ValidFor(i, x, z, w, d) ==
    /\ x + w <= grid.size
    /\ z + d <= grid.size
    /\ \A j \in 1..Len(terrains) :
           terrains[j].id # terrains[i].id => ~Overlaps(x, z, w, d, terrains[j], grid)

\* the i-th terrain sits at a valid position
ValidAt(i) ==
    ValidFor(i, terrains[i].gridPosition.x, terrains[i].gridPosition.z, Wide(i), Deep(i))

\* the footprint the i-th terrain has once width and depth are swapped
SwappedWide(i) == Ceil(terrains[i].dimensions.depth, grid.cellSize)
SwappedDeep(i) == Ceil(terrains[i].dimensions.width, grid.cellSize)

\* C3: when rotateTerrain finds the previous position invalid for the swapped
\* footprint and some valid position exists, the rotation completes and the
\* terrain is committed at a position that is valid for it.
C3_RotateRelocates ==
    [][\A terrainId \in 0..MaxNow :
         LET i == FindIndex(terrains, terrainId)
         IN  ( /\ i # 0
               /\ rotateTerrain(terrainId)
               /\ ~ValidFor(i, terrains[i].gridPosition.x, terrains[i].gridPosition.z,
                            SwappedWide(i), SwappedDeep(i))
               /\ \E x \in Coords, z \in Coords :
                      ValidFor(i, x, z, SwappedWide(i), SwappedDeep(i)) )
             => (outcome' # "threw" /\ ValidAt(i)')]_vars

----------------------------------------------------------------------------
(* C4 *)

\* C4: a pointer move handled in the Dragging state keeps the invariants: if
\* NO-OVERLAP and UPPER-BOUND hold before it, both hold after it, whatever
\* cell the pointer snaps to.
C4_DragPreserves ==
    [][\A c \in DragCells :
         ( /\ isDragging
           /\ selectedTerrain # NoSel
           /\ onMouseMove(c[1], c[2])
           /\ NoOverlapInv
           /\ UpperBoundInv )
         => (NoOverlapInv' /\ UpperBoundInv')]_vars

----------------------------------------------------------------------------
(* C5 *)

\* the j-th terrain of the registry is not the dragged object
IsOther(j) == selectedTerrain.kind = "out" \/ j # selectedTerrain.idx

\* the dragged terrain's footprint at cell (x, z) overlaps another terrain or
\* exceeds the upper bound
Blocked(x, z) ==
    LET w == cellsWide(SelObj, grid)
        d == cellsDeep(SelObj, grid)
    IN  \/ x + w > grid.size
        \/ z + d > grid.size
        \/ \E j \in 1..Len(terrains) :
               IsOther(j) /\ Overlaps(x, z, w, d, terrains[j], grid)

\* C5: a drag move whose candidate rectangle overlaps another terrain or
\* exceeds the upper bound is not accepted and leaves every terrain of the
\* registry exactly as it was.
C5_RejectedUnchanged ==
    [][\A c \in DragCells :
         ( /\ isDragging
           /\ selectedTerrain # NoSel
           /\ onMouseMove(c[1], c[2])
           /\ Blocked(c[1], c[2]) )
         => (outcome' = "rejected" /\ terrains' = terrains)]_vars

----------------------------------------------------------------------------
(* C6 *)

\* some cell of the searched range is free for a w x d footprint: it overlaps
\* no terrain of the registry
SomeFree(w, d) ==
    \E x \in (-grid.size)..(grid.size - w), z \in (-grid.size)..(grid.size - d) :
        \A j \in 1..Len(terrains) : ~Overlaps(x, z, w, d, terrains[j], grid)

\* C6: a placement puts the new terrain on a position that overlaps an
\* existing terrain only when no position of the searched range is free for
\* its footprint.
C6_FallbackOnlyWhenFull ==
    [][\A s \in Shapes :
         LoadTerrain(s[1], s[2]) =>
             LET new == terrains'[Len(terrains')]
                 w == cellsWide(new, grid)
                 d == cellsDeep(new, grid)
             IN  (\E j \in 1..Len(terrains) :
                      Overlaps(new.gridPosition.x, new.gridPosition.z, w, d,
                               terrains[j], grid))
                 => ~SomeFree(w, d)]_vars

----------------------------------------------------------------------------
(* C7 *)

\* C7: any two distinct terrains that are in the registry at the same time
\* have different ids.
C7_UniqueIds ==
    \A i, j \in 1..Len(terrains) : i # j => terrains[i].id # terrains[j].id

----------------------------------------------------------------------------
(* C8 *)

\* C8: a drag move to cell (x, z) is accepted if and only if x + cellsWide <=
\* grid.size, z + cellsDeep <= grid.size and the candidate rectangle overlaps
\* no terrain other than the dragged one (there is no lower bound); an
\* accepted move sets gridPosition to exactly (x, z).
C8_MoveAcceptedIff ==
    [][\A c \in DragCells :
         ( /\ isDragging
           /\ selectedTerrain.kind = "in"
           /\ onMouseMove(c[1], c[2]) )
         => /\ (outcome' # "rejected") <=> ~Blocked(c[1], c[2])
            /\ (outcome' # "rejected") =>
                   terrains'[selectedTerrain.idx].gridPosition = [x |-> c[1], z |-> c[2]]]_vars

----------------------------------------------------------------------------
(* C9 *)

\* the rectangle (x, z, w, d) overlaps a terrain of the registry whose id is
\* not excludeId
Occupied(x, z, w, d, excludeId) ==
    \E j \in 1..Len(terrains) :
        terrains[j].id # excludeId /\ Overlaps(x, z, w, d, terrains[j], grid)

\* the cells of the searched range that are not occupied for a w x d footprint
FreeCells(w, d, excludeId) ==
    {c \in ((-grid.size)..(grid.size - w)) \X ((-grid.size)..(grid.size - d)) :
        ~Occupied(c[1], c[2], w, d, excludeId)}

\* C9: a placement puts the new terrain on the first free cell in row-major
\* order: among the cells of the searched range that are not occupied, the one
\* with the least z and, for that z, the least x.  On an empty grid of size
\* 10 and cellSize 10 a 15 x 5 terrain has footprint 2x1 and is placed at
\* (-10,-10).
C9_FirstFreeRowMajor ==
    [][\A s \in Shapes :
         LoadTerrain(s[1], s[2]) =>
             LET new == terrains'[Len(terrains')]
                 w == cellsWide(new, grid)
                 d == cellsDeep(new, grid)
                 free == FreeCells(w, d, new.id)
                 at == new.gridPosition
             IN  /\ free # {} =>
                        /\ <<at.x, at.z>> \in free
                        /\ \A c \in free : at.z < c[2] \/ (at.z = c[2] /\ at.x <= c[1])
                 /\ ( /\ terrains = <<>>
                      /\ grid = [size |-> 10, cellSize |-> 10]
                      /\ s = <<15, 5>> )
                    => (w = 2 /\ d = 1 /\ at = [x |-> -10, z |-> -10])]_vars

\* a second terrain was placed right of the first one, on the first cell of
\* the first row that the first terrain leaves free
C9_Witness ==
    /\ Len(terrains) = 2
    /\ grid = [size |-> 10, cellSize |-> 10]
    /\ terrains[1].id # terrains[2].id
    /\ terrains[1].gridPosition = [x |-> -10, z |-> -10]
    /\ Wide(1) = 2
    /\ terrains[2].gridPosition = [x |-> -8, z |-> -10]
    /\ terrains[2].rotation = 0

----------------------------------------------------------------------------
(* C10 *)

\* C10: when the terrain's position is valid (upper bound, no overlap, own id
\* excluded) for the swapped footprint, rotateTerrain completes and leaves
\* gridPosition unchanged, with the footprint swapped; a lone 3x1 terrain at
\* (0,0) becomes 1x3 and stays at (0,0).
C10_RotateInPlace ==
    [][\A terrainId \in 0..MaxNow :
         LET i == FindIndex(terrains, terrainId)
         IN  ( /\ i # 0
               /\ rotateTerrain(terrainId)
               /\ ValidFor(i, terrains[i].gridPosition.x, terrains[i].gridPosition.z,
                           SwappedWide(i), SwappedDeep(i)) )
             => /\ outcome' # "threw"
                /\ terrains'[i].gridPosition = terrains[i].gridPosition
                /\ cellsWide(terrains'[i], grid) = SwappedWide(i)
                /\ cellsDeep(terrains'[i], grid) = SwappedDeep(i)
                /\ ( /\ Len(terrains) = 1
                     /\ terrains[1].gridPosition = [x |-> 0, z |-> 0]
                     /\ Wide(1) = 3 /\ Deep(1) = 1 )
                   => ( /\ terrains'[1].gridPosition = [x |-> 0, z |-> 0]
                        /\ Wide(1)' = 1 /\ Deep(1)' = 3 )]_vars

\* a lone terrain of footprint 1x3 stands at (0,0) after one quarter turn
C10_Witness ==
    /\ Len(terrains) = 1
    /\ terrains[1].gridPosition = [x |-> 0, z |-> 0]
    /\ terrains[1].rotation = 1
    /\ Wide(1) = 1
    /\ Deep(1) = 3
    /\ outcome = "done"

----------------------------------------------------------------------------
(* C11 *)

\* rotation and dimensions of a terrain object
Attitude(t) == <<t.rotation, t.dimensions.width, t.dimensions.depth>>

\* the step rotates the i-th terrain of the registry
Rotates(i) ==
    \E terrainId \in 0..MaxNow :
        FindIndex(terrains, terrainId) = i /\ rotateTerrain(terrainId)

\* C11: every rotateTerrain call turns exactly the terrain it finds by a
\* quarter turn and swaps its width and depth, no other step changes a
\* terrain's rotation or dimensions, and four such turns of a terrain give
\* back its rotation and its (width, depth) pair, while one turn (and so any
\* odd number) leaves width and depth swapped.
C11_RotationReversible ==
    /\ [](\A i \in 1..Len(terrains) :
            LET t == terrains[i]
                t1 == Turned(t)
                t4 == Turned(Turned(Turned(t1)))
            IN  /\ Attitude(t4) = Attitude(t)
                /\ t1.dimensions.width = t.dimensions.depth
                /\ t1.dimensions.depth = t.dimensions.width
                /\ Attitude(Turned(Turned(t1))) =
                       <<(t.rotation + 3) % 4, t.dimensions.depth, t.dimensions.width>>)
    /\ [][Len(terrains') = Len(terrains) =>
             \A i \in 1..Len(terrains) :
                 IF Rotates(i)
                 THEN Attitude(terrains'[i]) =
                          <<(terrains[i].rotation + 1) % 4,
                            terrains[i].dimensions.depth, terrains[i].dimensions.width>>
                 ELSE Attitude(terrains'[i]) = Attitude(terrains[i])]_vars

\* a terrain has been turned three times while a second terrain, dragged to
\* (0,0), is in the registry
C11_Witness ==
    /\ Len(terrains) = 2
    /\ terrains[1].rotation = 3
    /\ terrains[1].dimensions = [width |-> 5, depth |-> 15]
    /\ terrains[2].gridPosition = [x |-> 0, z |-> 0]
    /\ terrains[2].rotation = 0

----------------------------------------------------------------------------
(* C12 *)

\* footprint of the i-th terrain of registry ts with the minimum of one cell
\* per axis
ClampedWide(ts, i) == Max(1, cellsWide(ts[i], grid))
ClampedDeep(ts, i) == Max(1, cellsDeep(ts[i], grid))

\* the i-th terrain of the registry has a footprint of 0 cells on some axis
ZeroFootprint(i) == Wide(i) = 0 \/ Deep(i) = 0

\* in registry ts the rectangle of terrain j covers a cell of terrain i, both
\* taken with at least one cell per axis
OnCellsOf(ts, j, i) ==
    /\ ts[j].gridPosition.x < ts[i].gridPosition.x + ClampedWide(ts, i)
    /\ ts[i].gridPosition.x < ts[j].gridPosition.x + ClampedWide(ts, j)
    /\ ts[j].gridPosition.z < ts[i].gridPosition.z + ClampedDeep(ts, i)
    /\ ts[i].gridPosition.z < ts[j].gridPosition.z + ClampedDeep(ts, j)

\* the step appends terrain j to the registry or commits a new gridPosition
\* to it
PlacedOrMoved(j) ==
    /\ Len(terrains') >= Len(terrains)
    /\ j \in 1..Len(terrains')
    /\ \/ j > Len(terrains)
       \/ /\ j <= Len(terrains)
          /\ terrains'[j].gridPosition # terrains[j].gridPosition

\* C12: a terrain whose footprint is 0 cells wide or deep keeps the cell at
\* its gridPosition to itself: no step places or moves a terrain of another
\* id onto the cells it occupies when counted with at least one cell per axis.
C12_ZeroFootprintClamped ==
    [][\A i \in 1..Len(terrains) : \A j \in 1..MaxTerrains :
          ( /\ ZeroFootprint(i)
            /\ PlacedOrMoved(j)
            /\ j # i
            /\ terrains'[i] = terrains[i]
            /\ terrains'[j].id # terrains[i].id )
          => ~OnCellsOf(terrains', j, i)]_vars

----------------------------------------------------------------------------
(* C13 *)

\* no terrain of the registry has this id
UnknownId(terrainId) == \A k \in 1..Len(terrains) : terrains[k].id # terrainId

\* C13: rotateTerrain, removeTerrain and centerOnTerrain called with an id
\* that no terrain of the registry has do not throw and leave the registry
\* as it was: same terrains in the same order, each with its gridPosition,
\* dimensions and rotation.
C13_UnknownIdNoOp ==
    [][\A terrainId \in 0..MaxNow :
          ( /\ UnknownId(terrainId)
            /\ \/ rotateTerrain(terrainId)
               \/ removeTerrain(terrainId)
               \/ centerOnTerrain(terrainId) )
          => /\ terrains' = terrains
             /\ outcome' # "threw"]_vars

\* the registry holds terrains, none of them with id 0, and each of the three
\* commands can be run with id 0
C13_Witness ==
    /\ Len(terrains) = 2
    /\ UnknownId(0)
    /\ ENABLED rotateTerrain(0)
    /\ ENABLED removeTerrain(0)
    /\ ENABLED centerOnTerrain(0)

----------------------------------------------------------------------------
(* C14 *)

\* candidate rectangles the overlap test is compared on: corners around the
\* cells terrains are dragged to, spans of one and two cells
ProbeX == {0, 1, 2}
ProbeZ == {-1, 0}
ProbeSpans == {1, 2}

\* two terrains of different ids with a 2x2 footprint at (0,0) and (2,0), the
\* second one being dragged
EdgeToEdge ==
    /\ Len(terrains) = 2
    /\ terrains[1].id # terrains[2].id
    /\ Wide(1) = 2 /\ Deep(1) = 2 /\ Wide(2) = 2 /\ Deep(2) = 2
    /\ terrains[1].gridPosition = [x |-> 0, z |-> 0]
    /\ terrains[2].gridPosition = [x |-> 2, z |-> 0]
    /\ isDragging
    /\ selectedTerrain = [kind |-> "in", idx |-> 2]

\* C14: isPositionOccupied(x, z, w, d, excludeId) is true exactly when some
\* terrain T whose id is not excludeId has x < T.x + cellsWide(T),
\* T.x < x + w, z < T.z + cellsDeep(T) and T.z < z + d.  Rectangles sharing
\* only an edge do not overlap: 2x2 terrains at (0,0) and (2,0) are both
\* free where they stand, and dragging the second to (1,0) is rejected.
C14_ClosedOpenOverlap ==
    /\ [](\A x \in ProbeX : \A z \in ProbeZ : \A w \in ProbeSpans :
          \A d \in ProbeSpans : \A excludeId \in 0..MaxNow :
              isPositionOccupied(terrains, grid, x, z, w, d, excludeId)
                  <=> Occupied(x, z, w, d, excludeId))
    /\ [](EdgeToEdge =>
              /\ ~isPositionOccupied(terrains, grid, 2, 0, 2, 2, terrains[2].id)
              /\ ~isPositionOccupied(terrains, grid, 0, 0, 2, 2, terrains[1].id)
              /\ isPositionOccupied(terrains, grid, 1, 0, 2, 2, terrains[2].id))
    /\ [][(EdgeToEdge /\ onMouseMove(1, 0))
              => (terrains' = terrains /\ outcome' = "rejected")]_vars

\* the two 2x2 terrains stand edge to edge and a move of the second has just
\* been rejected
C14_Witness == EdgeToEdge /\ outcome = "rejected"

----------------------------------------------------------------------------
(* C15 *)

\* the registry in another insertion order
Reordered(p) == [k \in 1..Len(terrains) |-> terrains[p[k]]]

\* the cell findAvailableGridPosition returns for a new terrain of shape s
\* created at time id and pushed to registry ts
PlacementOf(ts, id, s) ==
    LET terrain == createTerrainObject(id, s[1], s[2])
    IN  findAvailableGridPosition(Append(ts, terrain), grid, terrain)

\* every call made in this grid configuration and registry, now or at a
\* later time, returns the same cell for the same shape
SameOnEveryCall ==
    \A s \in Shapes : \A later \in now..MaxNow :
        PlacementOf(terrains, later, s) = PlacementOf(terrains, now, s)

\* the cell returned does not depend on the order of the registry
SameForEveryOrder ==
    \A s \in Shapes : \A p \in Permutations(1..Len(terrains)) :
        PlacementOf(Reordered(p), now, s) = PlacementOf(terrains, now, s)

\* C15: for a fixed grid configuration and footprint of the new terrain,
\* findAvailableGridPosition returns the same cell on every call and for
\* every permutation of the order of the terrains already in the registry.
C15_PlacementOrderFree == SameOnEveryCall /\ SameForEveryOrder

----------------------------------------------------------------------------
(* C16 *)

\* the step is a change of the gridSize or of the cellSize input
GridInputChanged ==
    \/ grid' # grid
    \/ \E v \in GridSizeInputs : SetGridSize(v)
    \/ \E v \in CellSizeInputs : SetCellSize(v)

\* C16: a change of grid.size or grid.cellSize changes the grid
\* configuration only: the registry (membership, order, every terrain's
\* gridPosition, dimensions and rotation) and the drag state stay as they
\* were; no terrain is relocated, even one the new configuration makes
\* invalid.
C16_GridChangeFrame ==
    [][GridInputChanged =>
          /\ terrains' = terrains
          /\ selectedTerrain' = selectedTerrain
          /\ isDragging' = isDragging
          /\ controlsEnabled' = controlsEnabled]_vars

\* both inputs were changed during a drag, and the terrain placed at
\* (-10,-10) before that is still there, outside the new 1 x 1 search range
C16_Witness ==
    /\ grid = [size |-> 1, cellSize |-> 5]
    /\ isDragging
    /\ selectedTerrain = [kind |-> "in", idx |-> 1]
    /\ Len(terrains) = 2
    /\ terrains[1].gridPosition = [x |-> -10, z |-> -10]

----------------------------------------------------------------------------
(* C17 *)

\* registry ts without its i-th terrain, the others in their order
Without(ts, i) == SubSeq(ts, 1, i - 1) \o SubSeq(ts, i + 1, Len(ts))

----------------------------------------------------------------------------
(* C18 *)

\* the drag controller is in its Idle state
Idle == ~isDragging /\ selectedTerrain = NoSel /\ controlsEnabled

\* C18: in every reachable state isDragging is true exactly when
\* selectedTerrain is not null and exactly when the camera controls are
\* disabled; pointerup leads to Idle from any state; a pointermove handled
\* in Idle changes no terrain.
C18_DragStateMachine ==
    /\ []( /\ isDragging <=> selectedTerrain # NoSel
           /\ isDragging <=> ~controlsEnabled )
    /\ [][onMouseUp => Idle']_vars
    /\ [][\A c \in DragCells :
             (Idle /\ onMouseMove(c[1], c[2])) => terrains' = terrains]_vars

\* the controller is back in Idle after a drag that moved a terrain to (0,0)
C18_Witness ==
    /\ Idle
    /\ \E i \in 1..Len(terrains) : terrains[i].gridPosition = [x |-> 0, z |-> 0]
    /\ ~fellBack

----------------------------------------------------------------------------
(* C19 *)

\* the step is a pointermove that passes the validity test and commits the
\* candidate cell to the selected terrain object
Commits ==
    /\ isDragging
    /\ selectedTerrain # NoSel
    /\ outcome' = "done"
    /\ \E c \in DragCells : onMouseMove(c[1], c[2])

\* C19: while a drag is in progress the selected terrain is a terrain of the
\* registry, whatever removeTerrain and rotateTerrain calls are interleaved
\* with the pointer events, and every gridPosition that onMouseMove commits
\* is committed to a terrain of the registry.
C19_SelectedInRegistry ==
    /\ [](isDragging =>
              /\ selectedTerrain.kind = "in"
              /\ selectedTerrain.idx \in 1..Len(terrains))
    /\ [][Commits => selectedTerrain.kind = "in"]_vars

====
